---- MODULE Spec2Model ----
(***************************************************************************)
(* entimport: inference of ent schema mutations (entities, fields, edges)  *)
(* from an inspected database schema.  The model follows                   *)
(* internal/entimport/import.go (schemaMutations and its helpers) and the  *)
(* two dialect type mappers (MySQL.field, Postgres.field).                 *)
(*                                                                         *)
(* A run of schemaMutations is a state machine: pass 1 visits the tables   *)
(* in order (classify, build the node), pass 2 visits them again (attach   *)
(* the edges), and the last step collects the map into the returned list.  *)
(* A nil dereference in the Go code ends the run in the outcome "panic".   *)
(***************************************************************************)
EXTENDS Integers, Sequences, FiniteSets, TLC

VARIABLES
    dialect,     \* "mysql" | "postgres": which fieldFunc is passed down
    inspected,   \* s.Tables, the tables InspectSchema returned
    excludedTables, \* the deny-list option: [set, names], set FALSE for nil
    tables,      \* the []*schema.Table argument of schemaMutations
    pc,          \* "pass1" | "pass2" | "collect" | "done"
    i,           \* index of the table the current loop is at (1-based)
    mutations,   \* map[string]schemast.Mutator: table name -> node
    joinTables,  \* map[string]*schema.Table: table name -> join table
    ret          \* what the call ended with: [kind, ml, err]

vars == <<dialect, inspected, excludedTables, tables, pc, i, mutations, joinTables, ret>>

----------------------------------------------------------------------------
(* Helpers on sequences and functions.                                     *)

Range(s) == {s[k] : k \in DOMAIN s}

\* the map m with key k set to v (a Go map assignment m[k] = v)
MapSet(m, k, v) == [x \in DOMAIN m \cup {k} |-> IF x = k THEN v ELSE m[x]]

EmptyMap == [x \in {} |-> 0]

\* all sequences over S with length in lo..hi
SeqsOf(S, lo, hi) == UNION {[1..n -> S] : n \in lo..hi}

\* all orderings of a finite set
Orderings(S) == {s \in [1..Cardinality(S) -> S] : Range(s) = S}

----------------------------------------------------------------------------
(* github.com/go-openapi/inflect, on the vocabulary of the model.  The     *)
(* library is not part of the repository; the four transformations are     *)
(* tabulated for the names the model uses, as the library computes them    *)
(* (users -> user -> User -> Users -> users).                              *)

Singularize(s) ==
    CASE s = "users" -> "user"
      [] s = "pets" -> "pet"
      [] s = "ids" -> "id"
      [] s = "user_pets" -> "user_pet"
      [] OTHER -> s

Camelize(s) ==
    CASE s = "user" -> "User"
      [] s = "pet" -> "Pet"
      [] s = "id" -> "Id"
      [] s = "user_pet" -> "UserPet"
      [] OTHER -> s

Pluralize(s) ==
    CASE s = "User" -> "Users"
      [] s = "Pet" -> "Pets"
      [] s = "Id" -> "Ids"
      [] s = "UserPet" -> "UserPets"
      [] OTHER -> s

Underscore(s) ==
    CASE s = "Users" -> "users"
      [] s = "Pets" -> "pets"
      [] s = "Ids" -> "ids"
      [] s = "UserPets" -> "user_pets"
      [] OTHER -> s

typeName(tableName_) == Camelize(Singularize(tableName_))

tableName(typeName_) == Underscore(Pluralize(typeName_))

----------------------------------------------------------------------------
(* Column type mappers.  A column is                                       *)
(*   [name, kind, T, unsigned, null, comment]                              *)
(* where kind is the Go type of column.Type.Type (the type switch) and T   *)
(* its type name.  A field descriptor is                                   *)
(*   [name, col, kind, storageKey, optional, unique, comment]              *)
(* col is the physical column the field was built from; it is not a field  *)
(* of the Go descriptor and nothing in the model reads it to decide what   *)
(* the code does: the properties use it to say "the field built from ...". *)

Col(name, kind, T, unsigned, null) ==
    [name |-> name, kind |-> kind, T |-> T, unsigned |-> unsigned,
     null |-> null, comment |-> ""]

NewField(name, kind) ==
    [name |-> name, col |-> name, kind |-> kind, storageKey |-> "",
     optional |-> FALSE, unique |-> FALSE, comment |-> ""]

\* a nil ent.Field interface value
NilField == [name |-> "", col |-> "", kind |-> "nil", storageKey |-> "",
             optional |-> FALSE, unique |-> FALSE, comment |-> ""]

MySQLConvertFloat(typ, name) ==
    IF typ.T = "double" THEN NewField(name, "float64")
    ELSE NewField(name, "float32")

\* convertInteger with smallint mapped to the 32-bit kind as well
MySQLConvertIntegerSmallAs32(typ, name) ==
    IF typ.T = "smallint"
    THEN NewField(name, IF typ.unsigned THEN "uint32" ELSE "int32")
    ELSE IF typ.unsigned
         THEN CASE typ.T = "tinyint" -> NewField(name, "uint8")
                [] typ.T \in {"mediumint", "int"} -> NewField(name, "uint32")
                [] typ.T = "bigint" -> NewField(name, "uint64")
                [] OTHER -> NilField
         ELSE CASE typ.T = "tinyint" -> NewField(name, "int8")
                [] typ.T \in {"mediumint", "int"} -> NewField(name, "int32")
                [] typ.T = "bigint" -> NewField(name, "int")
                [] OTHER -> NilField

MySQLConvertInteger(typ, name) ==
    IF typ.unsigned
    THEN CASE typ.T = "tinyint" -> NewField(name, "uint8")
           [] typ.T = "smallint" -> NewField(name, "uint16")
           [] typ.T = "mediumint" -> NewField(name, "uint32")
           [] typ.T = "int" -> NewField(name, "uint32")
           [] typ.T = "bigint" -> NewField(name, "uint64")
           [] OTHER -> NilField
    ELSE CASE typ.T = "tinyint" -> NewField(name, "int8")
           [] typ.T = "smallint" -> NewField(name, "int16")
           [] typ.T = "mediumint" -> NewField(name, "int32")
           [] typ.T = "int" -> NewField(name, "int32")
           [] typ.T = "bigint" -> NewField(name, "int")
           [] OTHER -> NilField

PostgresConvertFloat(typ, name) ==
    IF typ.T = "real" THEN NewField(name, "float32")
    ELSE NewField(name, "float64")

\* convertInteger with bigint mapped to the fixed 64-bit kind
PostgresConvertIntegerFixed64(typ, name) ==
    CASE typ.T = "smallint" -> NewField(name, "int16")
      [] typ.T = "integer" -> NewField(name, "int32")
      [] typ.T = "bigint" -> NewField(name, "int64")
      [] OTHER -> NilField

PostgresConvertInteger(typ, name) ==
    CASE typ.T = "smallint" -> NewField(name, "int16")
      [] typ.T = "integer" -> NewField(name, "int32")
      [] typ.T = "bigint" -> NewField(name, "int")
      [] OTHER -> NilField

PostgresConvertSerial(typ, name) == NewField(name, "uint")

\* applyColumnAttributes(f, col): f.Descriptor() on a nil interface panics
applyColumnAttributes(f, col) ==
    IF f.kind = "nil"
    THEN [st |-> "panic", err |-> "nil", f |-> NilField]
    ELSE [st |-> "ok", err |-> "nil",
          f |-> [f EXCEPT !.optional = col.null, !.comment = col.comment]]

UnsupportedType == [st |-> "err", err |-> "unsupportedType", f |-> NilField]

MySQLField(column) ==
    CASE column.kind = "binary" -> applyColumnAttributes(NewField(column.name, "bytes"), column)
      [] column.kind = "bool" -> applyColumnAttributes(NewField(column.name, "bool"), column)
      [] column.kind = "decimal" -> applyColumnAttributes(NewField(column.name, "float64"), column)
      [] column.kind = "enum" -> applyColumnAttributes(NewField(column.name, "enum"), column)
      [] column.kind = "float" -> applyColumnAttributes(MySQLConvertFloat(column, column.name), column)
      [] column.kind = "integer" -> applyColumnAttributes(MySQLConvertInteger(column, column.name), column)
      [] column.kind = "json" -> applyColumnAttributes(NewField(column.name, "json"), column)
      [] column.kind = "string" -> applyColumnAttributes(NewField(column.name, "string"), column)
      [] column.kind = "time" -> applyColumnAttributes(NewField(column.name, "time"), column)
      [] OTHER -> UnsupportedType

PostgresField(column) ==
    CASE column.kind = "binary" -> applyColumnAttributes(NewField(column.name, "bytes"), column)
      [] column.kind = "bool" -> applyColumnAttributes(NewField(column.name, "bool"), column)
      [] column.kind = "decimal" -> applyColumnAttributes(NewField(column.name, "float64"), column)
      [] column.kind = "enum" -> applyColumnAttributes(NewField(column.name, "enum"), column)
      [] column.kind = "float" -> applyColumnAttributes(PostgresConvertFloat(column, column.name), column)
      [] column.kind = "integer" -> applyColumnAttributes(PostgresConvertInteger(column, column.name), column)
      [] column.kind = "json" -> applyColumnAttributes(NewField(column.name, "json"), column)
      [] column.kind = "string" -> applyColumnAttributes(NewField(column.name, "string"), column)
      [] column.kind = "time" -> applyColumnAttributes(NewField(column.name, "time"), column)
      [] column.kind = "serial" -> applyColumnAttributes(PostgresConvertSerial(column, column.name), column)
      [] column.kind = "uuid" -> applyColumnAttributes(NewField(column.name, "uuid"), column)
      [] OTHER -> UnsupportedType

\* the fieldFunc passed to schemaMutations: m.field or p.field
field(d, column) == IF d = "mysql" THEN MySQLField(column) ELSE PostgresField(column)

----------------------------------------------------------------------------
(* Tables.  A table is [name, cols, pk, idxs, fks]:                        *)
(*   cols  sequence of columns                                             *)
(*   pk    [present, parts]: present = FALSE is table.PrimaryKey == nil;   *)
(*         parts is the sequence of the key's column names                 *)
(*   idxs  sequence of [unique, parts] (parts: column names)               *)
(*   fks   sequence of [cols, ref] (cols: column names of this table,      *)
(*         ref: name of fk.RefTable)                                       *)
(* Columns are identified by name: within one inspected table the column   *)
(* pointers the Go code compares are equal exactly when the names are.     *)

Tbl(name, cols, pk, idxs, fks) ==
    [name |-> name, cols |-> cols, pk |-> pk, idxs |-> idxs, fks |-> fks]

NoPK == [present |-> FALSE, parts |-> <<>>]

PK(parts) == [present |-> TRUE, parts |-> parts]

ColumnOf(table, n) == CHOOSE c \in Range(table.cols) : c.name = n

isJoinTable(table) ==
    IF ~table.pk.present \/ Len(table.pk.parts) # 2 \/ Len(table.fks) # 2
    THEN FALSE
    ELSE \A k \in 1..Len(table.fks) :
            /\ Len(table.fks[k].cols) = 1
            /\ ~(/\ table.fks[k].cols[1] # table.pk.parts[1]
                 /\ table.fks[k].cols[1] # table.pk.parts[2])

----------------------------------------------------------------------------
(* Entity builder.  Results are [st, err, ...] with st "ok", "err" (the    *)
(* function returned a non-nil error) or "panic" (nil dereference).        *)

\* resolvePrimaryKey as it would be if the storage key were not recorded
resolvePrimaryKeyNoStorageKey(d, table) ==
    IF ~table.pk.present \/ Len(table.pk.parts) # 1
    THEN [st |-> "err", err |-> "invalidPK", f |-> NilField]
    ELSE LET r == field(d, ColumnOf(table, table.pk.parts[1]))
         IN  IF r.st # "ok" THEN r
             ELSE [r EXCEPT !.f.name = "id"]

resolvePrimaryKey(d, table) ==
    IF ~table.pk.present \/ Len(table.pk.parts) # 1
    THEN [st |-> "err", err |-> "invalidPK", f |-> NilField]
    ELSE LET r == field(d, ColumnOf(table, table.pk.parts[1]))
         IN  IF r.st # "ok" THEN r
             ELSE IF r.f.name # "id"
                  THEN [r EXCEPT !.f.storageKey = r.f.name, !.f.name = "id"]
                  ELSE r

\* upsertNode, the loop over table.Columns from position k on.
\* fs is upsert.Fields; fmap is the local map `fields`, name -> position in fs
RECURSIVE nodeColumns(_, _, _, _, _)
nodeColumns(d, table, k, fs, fmap) ==
    IF k > Len(table.cols)
    THEN [st |-> "ok", err |-> "nil", fs |-> fs, fmap |-> fmap]
    ELSE LET column == table.cols[k]
         IN  IF /\ table.pk.present
                /\ Len(table.pk.parts) # 0
                /\ table.pk.parts[1] = column.name
             THEN nodeColumns(d, table, k + 1, fs, fmap)
             ELSE LET r == field(d, column)
                  IN  IF r.st # "ok"
                      THEN [st |-> r.st, err |-> r.err, fs |-> fs, fmap |-> fmap]
                      ELSE IF column.name \in DOMAIN fmap
                           THEN nodeColumns(d, table, k + 1, fs, fmap)
                           ELSE nodeColumns(d, table, k + 1, Append(fs, r.f),
                                            MapSet(fmap, column.name, Len(fs) + 1))

\* upsertNode, the loop over table.Indexes from position k on
RECURSIVE nodeIndexes(_, _, _, _)
nodeIndexes(table, k, fs, fmap) ==
    IF k > Len(table.idxs)
    THEN [st |-> "ok", err |-> "nil", fs |-> fs]
    ELSE LET index == table.idxs[k]
         IN  IF index.unique /\ Len(index.parts) = 1
             THEN IF index.parts[1] \in DOMAIN fmap
                  THEN nodeIndexes(table, k + 1,
                                   [fs EXCEPT ![fmap[index.parts[1]]].unique = TRUE], fmap)
                  ELSE [st |-> "panic", err |-> "nil", fs |-> fs]
             ELSE nodeIndexes(table, k + 1, fs, fmap)

\* the columns of all foreign keys, in the order the nested loops visit them
RECURSIVE fkColumns(_, _)
fkColumns(table, k) ==
    IF k > Len(table.fks) THEN <<>>
    ELSE table.fks[k].cols \o fkColumns(table, k + 1)

\* the loops over table.ForeignKeys as they would be if the declared
\* nullability were kept
RECURSIVE nodeForeignKeysKeepNull(_, _, _, _)
nodeForeignKeysKeepNull(names, k, fs, fmap) ==
    IF k > Len(names)
    THEN [st |-> "ok", err |-> "nil", fs |-> fs]
    ELSE IF names[k] \notin DOMAIN fmap
         THEN [st |-> "err", err |-> "fkColumn", fs |-> fs]
         ELSE nodeForeignKeysKeepNull(names, k + 1, fs, fmap)

\* upsertNode, the loops over table.ForeignKeys and fk.Columns
RECURSIVE nodeForeignKeys(_, _, _, _)
nodeForeignKeys(names, k, fs, fmap) ==
    IF k > Len(names)
    THEN [st |-> "ok", err |-> "nil", fs |-> fs]
    ELSE IF names[k] \notin DOMAIN fmap
         THEN [st |-> "err", err |-> "fkColumn", fs |-> fs]
         ELSE nodeForeignKeys(names, k + 1,
                              [fs EXCEPT ![fmap[names[k]]].optional = TRUE], fmap)

Node(name, fs) == [name |-> name, fields |-> fs, edges |-> <<>>, annotations |-> <<>>]

NoNode == Node("", <<>>)

upsertNode(d, table) ==
    LET pk == resolvePrimaryKey(d, table)
    IN  IF pk.st # "ok"
        THEN [st |-> pk.st, err |-> pk.err, node |-> NoNode]
        ELSE LET c == nodeColumns(d, table, 1, <<pk.f>>, MapSet(EmptyMap, pk.f.name, 1))
             IN  IF c.st # "ok"
                 THEN [st |-> c.st, err |-> c.err, node |-> NoNode]
                 ELSE LET x == nodeIndexes(table, 1, c.fs, c.fmap)
                      IN  IF x.st # "ok"
                          THEN [st |-> x.st, err |-> x.err, node |-> NoNode]
                          ELSE LET f == nodeForeignKeys(fkColumns(table, 1), 1, x.fs, c.fmap)
                               IN  IF f.st # "ok"
                                   THEN [st |-> f.st, err |-> f.err, node |-> NoNode]
                                   ELSE [st |-> "ok", err |-> "nil",
                                         node |-> Node(typeName(table.name), f.fs)]

----------------------------------------------------------------------------
(* Relationship inference.  An edge descriptor is                          *)
(*   [name, type, inverse, unique, refName, field]                         *)
(* (inverse: built by edge.From).  relOptions is                           *)
(*   [uniqueEdgeToChild, recursive, uniqueEdgeFromParent, refName,         *)
(*    edgeField]                                                           *)
(* Nodes are reached through the mutations map: a *schemast.UpsertSchema   *)
(* pointer is the key of the map entry it came from.                       *)

NewEdge(name, inverse) ==
    [name |-> name, type |-> "", inverse |-> inverse, unique |-> FALSE,
     refName |-> "", field |-> ""]

NoOpts == [uniqueEdgeToChild |-> FALSE, recursive |-> FALSE,
           uniqueEdgeFromParent |-> FALSE, refName |-> "", edgeField |-> ""]

\* setEdgeField: [e, fs] - the edge with its field set, and childNode.Fields
setEdgeField(e, opts, fs) ==
    IF e.name = opts.edgeField
    THEN [e |-> [e EXCEPT !.field = opts.edgeField \o "_id"],
          fs |-> [k \in DOMAIN fs |->
                    IF fs[k].name = opts.edgeField
                    THEN [fs[k] EXCEPT !.name = opts.edgeField \o "_id"]
                    ELSE fs[k]]]
    ELSE [e |-> [e EXCEPT !.field = opts.edgeField], fs |-> fs]

\* entEdge with dir = to
entEdgeTo(nodeName, nodeType, opts) ==
    LET e0 == NewEdge(nodeName, FALSE)
        e1 == IF opts.uniqueEdgeToChild
              THEN [e0 EXCEPT !.unique = TRUE, !.name = Singularize(nodeName)]
              ELSE e0
        e2 == IF opts.recursive THEN [e1 EXCEPT !.name = "child_" \o e1.name] ELSE e1
    IN  [e2 EXCEPT !.type = nodeType]

\* entEdge with dir = from: [e, fs], fs the fields of currentNode afterwards
entEdgeFrom(nodeName, nodeType, fs, opts) ==
    LET e0 == NewEdge(nodeName, TRUE)
        e1 == IF opts.uniqueEdgeFromParent
              THEN [e0 EXCEPT !.unique = TRUE, !.name = Singularize(nodeName)]
              ELSE e0
        s  == IF opts.edgeField # "" THEN setEdgeField(e1, opts, fs)
              ELSE [e |-> e1, fs |-> fs]
        e3 == IF opts.recursive
              THEN [s.e EXCEPT !.name = "parent_" \o s.e.name]
              ELSE [s.e EXCEPT !.refName = IF opts.uniqueEdgeToChild
                                           THEN Singularize(opts.refName)
                                           ELSE opts.refName]
    IN  [e |-> [e3 EXCEPT !.type = nodeType], fs |-> s.fs]

\* upsertRelation as it would be with the two appends swapped
upsertRelationSwapped(m, a, b, opts0) ==
    LET tableA == tableName(m[a].name)
        tableB == tableName(m[b].name)
        opts   == [opts0 EXCEPT !.refName = tableB]
        fromA  == entEdgeFrom(tableA, m[a].name, m[b].fields, opts)
        m1     == [m EXCEPT ![b].fields = fromA.fs]
        toB    == entEdgeTo(tableB, m1[b].name, opts)
        m2     == [m1 EXCEPT ![a].edges = Append(@, fromA.e)]
    IN  [m2 EXCEPT ![b].edges = Append(@, toB)]

\* upsertRelation as it would be with the outgoing edge given the type of
\* the node it is attached to
upsertRelationOwnType(m, a, b, opts0) ==
    LET tableA == tableName(m[a].name)
        tableB == tableName(m[b].name)
        opts   == [opts0 EXCEPT !.refName = tableB]
        fromA  == entEdgeFrom(tableA, m[a].name, m[b].fields, opts)
        m1     == [m EXCEPT ![b].fields = fromA.fs]
        toB    == entEdgeTo(tableB, m1[a].name, opts)
        m2     == [m1 EXCEPT ![a].edges = Append(@, toB)]
    IN  [m2 EXCEPT ![b].edges = Append(@, fromA.e)]

\* upsertRelation(nodeA, nodeB, opts), nodeA = m[a] and nodeB = m[b]
upsertRelation(m, a, b, opts0) ==
    LET tableA == tableName(m[a].name)
        tableB == tableName(m[b].name)
        opts   == [opts0 EXCEPT !.refName = tableB]
        fromA  == entEdgeFrom(tableA, m[a].name, m[b].fields, opts)
        m1     == [m EXCEPT ![b].fields = fromA.fs]
        toB    == entEdgeTo(tableB, m1[b].name, opts)
        m2     == [m1 EXCEPT ![a].edges = Append(@, toB)]
    IN  [m2 EXCEPT ![b].edges = Append(@, fromA.e)]

\* upsertManyToMany as it would be with the second lookup forgotten
upsertManyToManyFirstOnly(m, table) ==
    LET tableA == table.fks[1].ref
        tableB == table.fks[2].ref
        opts   == [NoOpts EXCEPT !.recursive = (tableA = tableB)]
    IN  IF tableA \notin DOMAIN m
        THEN [err |-> "joinTableErr", m |-> m]
        ELSE IF tableB \notin DOMAIN m
             THEN [err |-> "nil", m |-> m]
             ELSE [err |-> "nil", m |-> upsertRelation(m, tableA, tableB, opts)]

\* upsertManyToMany: [err, m]
upsertManyToMany(m, table) ==
    LET tableA == table.fks[1].ref
        tableB == table.fks[2].ref
        opts   == [NoOpts EXCEPT !.recursive = (tableA = tableB)]
    IN  IF tableA \notin DOMAIN m
        THEN [err |-> "joinTableErr", m |-> m]
        ELSE IF tableB \notin DOMAIN m
             THEN [err |-> "joinTableErr", m |-> m]
             ELSE [err |-> "nil", m |-> upsertRelation(m, tableA, tableB, opts)]

\* upsertOneToX, the local map idxs after the loop over table.Indexes up to k:
\* column name -> the last single-part index on that column
RECURSIVE singlePartIndexes(_, _)
singlePartIndexes(table, k) ==
    IF k = 0 THEN EmptyMap
    ELSE IF Len(table.idxs[k].parts) # 1
         THEN singlePartIndexes(table, k - 1)
         ELSE MapSet(singlePartIndexes(table, k - 1), table.idxs[k].parts[1], table.idxs[k])

\* upsertOneToX, the loop over table.ForeignKeys from position k on
RECURSIVE oneToXFrom(_, _, _, _)
oneToXFrom(m, table, k, idxs) ==
    IF k > Len(table.fks) THEN m
    ELSE LET fk == table.fks[k]
         IN  IF Len(fk.cols) # 1
             THEN oneToXFrom(m, table, k + 1, idxs)
             ELSE LET parent  == fk.ref
                      child   == table.name
                      colName == fk.cols[1]
                      opts == [uniqueEdgeToChild |->
                                   (colName \in DOMAIN idxs /\ idxs[colName].unique),
                               recursive |-> (child = parent),
                               uniqueEdgeFromParent |-> TRUE,
                               refName |-> child,
                               edgeField |-> colName]
                  IN  IF parent \notin DOMAIN m THEN m
                      ELSE IF child \notin DOMAIN m THEN m
                      ELSE oneToXFrom(upsertRelation(m, parent, child, opts),
                                      table, k + 1, idxs)

upsertOneToX(m, table) ==
    IF Len(table.fks) = 0 THEN m
    ELSE oneToXFrom(m, table, 1, singlePartIndexes(table, Len(table.idxs)))

----------------------------------------------------------------------------
(* schemaMutations as a state machine.                                     *)
(* ret = [kind, mlNil, ml, err]:                                           *)
(*   kind   "running" | "returned" | "panic"                               *)
(*   mlNil  the returned []schemast.Mutator is nil                         *)
(*   ml     the returned list (a sequence of nodes)                        *)
(*   err    "nil" or the returned error                                    *)

Running == [kind |-> "running", mlNil |-> TRUE, ml |-> <<>>, err |-> "nil"]

ReturnErr(e) == [kind |-> "returned", mlNil |-> TRUE, ml |-> <<>>, err |-> e]

ReturnList(ml) == [kind |-> "returned", mlNil |-> FALSE, ml |-> ml, err |-> "nil"]

Panicked == [kind |-> "panic", mlNil |-> TRUE, ml |-> <<>>, err |-> "nil"]

\* what a failed callee makes of the call: return nil, err - or the panic unwinds
Failed(r) == IF r.st = "panic" THEN Panicked ELSE ReturnErr(r.err)

\* the node stored under the type name instead of the table name
putNodeByTypeName(m, table, node) ==
    MapSet(m, node.name, [node EXCEPT !.annotations = <<table.name>>])

\* the node stored and its one-to-x edges attached in the same loop
putNodeAndRelate(m, table, node) ==
    upsertOneToX(MapSet(m, table.name, [node EXCEPT !.annotations = <<table.name>>]), table)

\* node.Annotations = ...{Table: table.Name}; mutations[table.Name] = node
putNode(m, table, node) ==
    MapSet(m, table.name, [node EXCEPT !.annotations = <<table.name>>])

\* the loop variable moves on; after the last table the next loop starts
Advance(next) ==
    IF i < Len(tables)
    THEN pc' = pc /\ i' = i + 1
    ELSE pc' = next /\ i' = 1

\* first loop, a table isJoinTable accepts: joinTables[table.Name] = table
Pass1Join ==
    /\ pc = "pass1"
    /\ isJoinTable(tables[i])
    /\ joinTables' = MapSet(joinTables, tables[i].name, tables[i])
    /\ Advance("pass2")
    /\ UNCHANGED <<dialect, inspected, excludedTables, tables, mutations, ret>>

\* first loop, any other table: upsertNode, annotate, mutations[table.Name] = node
Pass1Node ==
    /\ pc = "pass1"
    /\ ~isJoinTable(tables[i])
    /\ LET r == upsertNode(dialect, tables[i])
       IN  IF r.st = "ok"
           THEN /\ mutations' = putNode(mutations, tables[i], r.node)
                /\ Advance("pass2")
                /\ UNCHANGED ret
           ELSE /\ ret' = Failed(r)
                /\ pc' = "done"
                /\ UNCHANGED <<i, mutations>>
    /\ UNCHANGED <<dialect, inspected, excludedTables, tables, joinTables>>

\* second loop, a table recorded in joinTables: upsertManyToMany
Pass2Join ==
    /\ pc = "pass2"
    /\ tables[i].name \in DOMAIN joinTables
    /\ LET r == upsertManyToMany(mutations, joinTables[tables[i].name])
       IN  IF r.err = "nil"
           THEN /\ mutations' = r.m
                /\ Advance("collect")
                /\ UNCHANGED ret
           ELSE /\ ret' = ReturnErr(r.err)
                /\ pc' = "done"
                /\ UNCHANGED <<i, mutations>>
    /\ UNCHANGED <<dialect, inspected, excludedTables, tables, joinTables>>

\* second loop, any other table: upsertOneToX
Pass2Node ==
    /\ pc = "pass2"
    /\ tables[i].name \notin DOMAIN joinTables
    /\ mutations' = upsertOneToX(mutations, tables[i])
    /\ Advance("collect")
    /\ UNCHANGED <<dialect, inspected, excludedTables, tables, joinTables, ret>>

\* the map is copied into the list in the order the map iteration yields
Collect ==
    /\ pc = "collect"
    /\ \E order \in Orderings(DOMAIN mutations) :
          ret' = ReturnList([k \in DOMAIN order |-> mutations[order[k]]])
    /\ pc' = "done"
    /\ UNCHANGED <<dialect, inspected, excludedTables, tables, i, mutations, joinTables>>

Next == Pass1Join \/ Pass1Node \/ Pass2Join \/ Pass2Node \/ Collect

Dialects == {"mysql", "postgres"}

\* the deny-list option: nil, or a list of table names
NoDenyList == [set |-> FALSE, names |-> <<>>]

DenyList(names) == [set |-> TRUE, names |-> names]

\* the loop over s.Tables from position k on, appending to acc the tables
\* whose names are not in the deny-list
RECURSIVE filterExcluded(_, _, _, _)
filterExcluded(s, k, names, acc) ==
    IF k > Len(s) THEN acc
    ELSE filterExcluded(s, k + 1, names,
                        IF s[k].name \in Range(names) THEN acc ELSE Append(acc, s[k]))

\* MySQL.SchemaMutations: the tables passed to schemaMutations.  `tables` is
\* declared nil and filled only inside `if m.excludedTables != nil`
MySQLSchemaMutations(s, ex) ==
    IF ex.set THEN filterExcluded(s, 1, ex.names, <<>>) ELSE <<>>

\* Postgres.SchemaMutations: `tables` starts as s.Tables
PostgresSchemaMutations(s, ex) ==
    IF ex.set THEN filterExcluded(s, 1, ex.names, <<>>) ELSE s

SchemaMutations(d, s, ex) ==
    IF d = "mysql" THEN MySQLSchemaMutations(s, ex) ELSE PostgresSchemaMutations(s, ex)

\* the state at the call of schemaMutations from SchemaMutations of dialect
\* d, the inspection having returned the tables s under the deny-list ex
Import(d, s, ex) ==
    /\ dialect = d
    /\ inspected = s
    /\ excludedTables = ex
    /\ tables = SchemaMutations(d, s, ex)
    /\ pc = IF Len(SchemaMutations(d, s, ex)) = 0 THEN "collect" ELSE "pass1"
    /\ i = 1
    /\ mutations = EmptyMap
    /\ joinTables = EmptyMap
    /\ ret = Running

\* the state at the call of schemaMutations(field, ts): the inspection
\* returned ts and the deny-list is empty
Start(d, ts) == Import(d, ts, DenyList(<<>>))

----------------------------------------------------------------------------
(* Inspected schemas the runs start from.  Table names are distinct: an    *)
(* inspected schema holds one table per name.                              *)

BigInt(name) == Col(name, "integer", "bigint", FALSE, FALSE)

\* the columns of a layout (a sequence of column names), all bigint NOT NULL
ColsOf(layout) == [k \in DOMAIN layout |-> BigInt(layout[k])]

\* primary keys over a layout: none, the first column, the first two columns
PKChoices(layout) ==
    {NoPK, PK(<<layout[1]>>)}
        \cup (IF Len(layout) >= 2 THEN {PK(<<layout[1], layout[2]>>)} ELSE {})

\* at most one single-column unique index
IdxChoices(layout) ==
    {<<>>} \cup {<<[unique |-> TRUE, parts |-> <<c>>]>> : c \in Range(layout)}

\* at most one single-column foreign key
FkChoices(layout, refs) ==
    {<<>>} \cup {<<[cols |-> <<c>>, ref |-> r]>> : c \in Range(layout), r \in refs}

\* every table called name over the layouts, with every choice of key (the
\* first column only when keyed), index and foreign key
Shapes(name, layouts, keyed, refs) ==
    UNION {{Tbl(name, ColsOf(l), pk, idxs, fks) :
               pk \in IF keyed THEN {PK(<<l[1]>>)} ELSE PKChoices(l),
               idxs \in IdxChoices(l),
               fks \in FkChoices(l, refs)} :
           l \in layouts}

Plain(name) == Tbl(name, ColsOf(<<"id">>), PK(<<"id">>), <<>>, <<>>)

\* `users`: key column id or uid, a second column physically named id,
\* an optional reference to ids (the edge to ids is named id)
UsersShapes == Shapes("users", {<<"id">>, <<"uid">>, <<"uid", "id">>}, FALSE, {"ids"})

\* `pets`: an optional reference to users from a column named as the edge is
PetsShapes == Shapes("pets", {<<"id">>, <<"uid">>, <<"id", "user">>}, TRUE, {"users"})

\* `user_pets` over (user_id, pet_id), both in the key, two foreign keys
JoinShapes(colPairs, refs) ==
    {Tbl("user_pets", ColsOf(<<"user_id", "pet_id">>), PK(<<"user_id", "pet_id">>), <<>>,
         <<[cols |-> <<cp[1]>>, ref |-> r1], [cols |-> <<cp[2]>>, ref |-> r2]>>) :
        cp \in colPairs, r1 \in refs, r2 \in refs}

\* all lists of at most n distinct names
RECURSIVE NameLists(_, _)
NameLists(names, n) ==
    IF n = 0 THEN {<<>>}
    ELSE {<<>>} \cup
         UNION {{<<nm>> \o rest : rest \in NameLists(names \ {nm}, n - 1)} : nm \in names}

NoTable == Tbl("", <<>>, NoPK, <<>>, <<>>)

\* the shapes the k-th table of a list named nl can have; fam maps a table
\* name to the shapes a table of that name can have
Slot(fam, nl, k) == IF k <= Len(nl) THEN fam[nl[k]] ELSE {NoTable}

\* a run starts on some list of at most n (and at most four) tables with
\* distinct names, each of a shape of its family
StartOnLists(fam, n) ==
    \E d \in Dialects, nl \in NameLists(DOMAIN fam, n) :
        \E t1 \in Slot(fam, nl, 1), t2 \in Slot(fam, nl, 2),
           t3 \in Slot(fam, nl, 3), t4 \in Slot(fam, nl, 4) :
            Start(d, SubSeq(<<t1, t2, t3, t4>>, 1, Len(nl)))

MaxTables == 3

SpecFamilies ==
    [nm \in {"users", "pets", "ids", "user", "user_pets"} |->
        CASE nm = "users" -> UsersShapes
          [] nm = "pets" -> PetsShapes
          [] nm = "ids" -> {Plain("ids")}
          [] nm = "user" -> {Plain("user")}
          [] nm = "user_pets" -> JoinShapes({<<"user_id", "pet_id">>}, {"users", "pets"})]

Init == StartOnLists(SpecFamilies, MaxTables)

Spec == Init /\ [][Next]_vars

----------------------------------------------------------------------------
(* Runs for the table classifier: one bridge-like table with every choice  *)
(* of key and up to three foreign keys, possibly beside the table users.   *)

ClassifyKeys ==
    {NoPK, PK(<<>>), PK(<<"user_id">>), PK(<<"user_id", "pet_id">>),
     PK(<<"pet_id", "user_id">>), PK(<<"user_id", "pet_id", "note">>)}

ClassifyFks ==
    {[cols |-> c, ref |-> "users"] :
        c \in {<<"user_id">>, <<"pet_id">>, <<"note">>, <<"user_id", "pet_id">>}}

MaxFks == 3

ClassifyShapes ==
    {Tbl("user_pets", ColsOf(<<"user_id", "pet_id", "note">>), pk, <<>>, fks) :
        pk \in ClassifyKeys, fks \in SeqsOf(ClassifyFks, 0, MaxFks)}

ClassifyFamilies ==
    [nm \in {"users", "user_pets"} |->
        IF nm = "users" THEN {Plain("users")} ELSE ClassifyShapes]

InitClassify == StartOnLists(ClassifyFamilies, MaxTables)

SpecClassify == InitClassify /\ [][Next]_vars

----------------------------------------------------------------------------
(* Runs for the type mappers: the table users(id, x) with every type       *)
(* descriptor on either column, possibly beside a join table.              *)

IntegerNames == {"tinyint", "smallint", "mediumint", "int", "bigint", "integer", "int4"}

FloatNames == {"float", "double", "real"}

OtherKinds == {"binary", "bool", "decimal", "enum", "json", "string", "time",
               "serial", "uuid", "spatial"}

\* [kind, T, unsigned] of a column type
TypeDescs ==
    {[kind |-> "integer", T |-> n, unsigned |-> u] : n \in IntegerNames, u \in BOOLEAN}
        \cup {[kind |-> "float", T |-> n, unsigned |-> FALSE] : n \in FloatNames}
        \cup {[kind |-> k, T |-> k, unsigned |-> FALSE] : k \in OtherKinds}

TypedShapes ==
    {Tbl("users",
         <<Col("id", a.kind, a.T, a.unsigned, FALSE), Col("x", b.kind, b.T, b.unsigned, n)>>,
         PK(<<"id">>), <<>>, <<>>) :
        a \in TypeDescs, b \in TypeDescs, n \in BOOLEAN}

TypeFamilies ==
    [nm \in {"users", "user_pets"} |->
        IF nm = "users" THEN TypedShapes
        ELSE JoinShapes({<<"user_id", "pet_id">>}, {"users"})]

InitTypes == StartOnLists(TypeFamilies, MaxTables)

SpecTypes == InitTypes /\ [][Next]_vars

----------------------------------------------------------------------------
(* Runs for relationship inference: the table pets(id, a, user) with up to *)
(* MaxRelIdxs single-column indexes over a (unique or not, in any order)   *)
(* and up to MaxRelFks foreign keys (over a to users, to pets itself or to *)
(* ids, a table outside the list; over user, or over both, to users),      *)
(* possibly beside the table users and a join table between them.          *)

MaxRelIdxs == 2

MaxRelFks == 2

RelIdxs == {[unique |-> u, parts |-> <<"a">>] : u \in BOOLEAN}

RelFks ==
    {[cols |-> <<"a">>, ref |-> r] : r \in {"users", "pets", "ids"}}
        \cup {[cols |-> <<"user">>, ref |-> "users"],
              [cols |-> <<"a", "user">>, ref |-> "users"]}

RelShapes ==
    {Tbl("pets",
         <<BigInt("id"), Col("a", "integer", "bigint", FALSE, n), BigInt("user")>>,
         PK(<<"id">>), idxs, fks) :
        n \in BOOLEAN,
        idxs \in SeqsOf(RelIdxs, 0, MaxRelIdxs),
        fks \in SeqsOf(RelFks, 0, MaxRelFks)}

RelFamilies ==
    [nm \in {"users", "pets", "user_pets"} |->
        CASE nm = "users" -> {Plain("users")}
          [] nm = "pets" -> RelShapes
          [] nm = "user_pets" -> JoinShapes({<<"user_id", "pet_id">>}, {"users", "pets"})]

InitRel == StartOnLists(RelFamilies, MaxTables)

SpecRel == InitRel /\ [][Next]_vars

----------------------------------------------------------------------------
(* Runs for the table filter: the inspection returns some of users, pets   *)
(* and a join table between them; the deny-list is nil or names up to      *)
(* MaxDeny tables.                                                         *)

MaxDeny == 2

DenyLists ==
    {NoDenyList} \cup {DenyList(n) : n \in SeqsOf({"users", "pets", "user_pets"}, 0, MaxDeny)}

FilterFamilies ==
    [nm \in {"users", "pets", "user_pets"} |->
        CASE nm = "users" -> {Plain("users")}
          [] nm = "pets" -> {Plain("pets")}
          [] nm = "user_pets" -> JoinShapes({<<"user_id", "pet_id">>}, {"users", "pets"})]

\* an import starts on some list of at most n (and at most four) inspected
\* tables with distinct names and some deny-list of exs
ImportOnLists(fam, n, exs) ==
    \E d \in Dialects, nl \in NameLists(DOMAIN fam, n), ex \in exs :
        \E t1 \in Slot(fam, nl, 1), t2 \in Slot(fam, nl, 2),
           t3 \in Slot(fam, nl, 3), t4 \in Slot(fam, nl, 4) :
            Import(d, SubSeq(<<t1, t2, t3, t4>>, 1, Len(nl)), ex)

InitFilter == ImportOnLists(FilterFamilies, MaxTables, DenyLists)

SpecFilter == InitFilter /\ [][Next]_vars

----------------------------------------------------------------------------
(* Runs for edge and field naming: the table pets(id, user) with up to     *)
(* MaxRelFks foreign keys over the column user (to users, where the edge   *)
(* takes the column's name, and to pets itself) or over id, with or        *)
(* without a unique index on user, possibly beside the table users and a   *)
(* join table between them.                                                *)

NameFks ==
    {[cols |-> <<"user">>, ref |-> "users"], [cols |-> <<"user">>, ref |-> "pets"],
     [cols |-> <<"id">>, ref |-> "users"]}

NameShapes ==
    {Tbl("pets", ColsOf(<<"id", "user">>), PK(<<"id">>), idxs, fks) :
        idxs \in IdxChoices(<<"user">>),
        fks \in SeqsOf(NameFks, 0, MaxRelFks)}

NameFamilies ==
    [nm \in {"users", "pets", "user_pets"} |->
        CASE nm = "users" -> {Plain("users")}
          [] nm = "pets" -> NameShapes
          [] nm = "user_pets" -> JoinShapes({<<"user_id", "pet_id">>}, {"users", "pets"})]

InitNames == StartOnLists(NameFamilies, MaxTables)

SpecNames == InitNames /\ [][Next]_vars

----------------------------------------------------------------------------
(* Properties.                                                             *)

TableNamed(nm) == CHOOSE t \in Range(tables) : t.name = nm

\* the call returned a list and no error
Succeeded == pc = "done" /\ ret.kind = "returned" /\ ret.err = "nil"

\* the first loop ended early: upsertNode returned an error or panicked
BuildFailed ==
    /\ pc = "done"
    /\ ret.kind = "panic" \/ ret.err \in {"invalidPK", "unsupportedType", "fkColumn"}

\* the first loop has gone past the k-th table
Classified(k) == IF pc = "pass1" \/ BuildFailed THEN k < i ELSE TRUE

\* no edge has been attached yet: the first loop is running or has just ended
PassOneState == pc = "pass1" \/ (pc = "pass2" /\ i = 1)

RECURSIVE SumOver(_, _)
SumOver(f, S) ==
    IF S = {} THEN 0
    ELSE LET x == CHOOSE y \in S : TRUE IN f[x] + SumOver(f, S \ {x})

\* the number of edges of all nodes of the map m
EdgeCount(m) == SumOver([nm \in DOMAIN m |-> Len(m[nm].edges)], DOMAIN m)

\* the join table the second loop is at, and its two referenced tables
JoinAt == joinTables[tables[i].name]

RefA == JoinAt.fks[1].ref

RefB == JoinAt.fks[2].ref

\* the second loop is at a join table
AtJoin == pc = "pass2" /\ tables[i].name \in DOMAIN joinTables

\* C1, as the specification states it: the key has two parts, there are two
\* foreign keys of one column each, and the two foreign-key columns are the
\* two key columns (as sets)
JoinTableBySetEquality(t) ==
    /\ t.pk.present
    /\ Len(t.pk.parts) = 2
    /\ Len(t.fks) = 2
    /\ \A k \in 1..2 : Len(t.fks[k].cols) = 1
    /\ {t.fks[1].cols[1], t.fks[2].cols[1]} = {t.pk.parts[1], t.pk.parts[2]}

\* C1: a table the first loop has visited is recorded as a join table exactly
\* when its key and foreign keys match by set equality.
C1_JoinTableIffSetEquality ==
    \A k \in DOMAIN tables :
        Classified(k) =>
            (tables[k].name \in DOMAIN joinTables <=> JoinTableBySetEquality(tables[k]))

\* C2: after a successful run the returned list holds exactly one node per
\* table not recorded as a join table (found by its table annotation, named
\* by typeName), none for a join table, and nothing else.
C2_OneEntityPerNonJoinTable ==
    Succeeded =>
        /\ Len(ret.ml) = Cardinality({k \in DOMAIN tables : tables[k].name \notin DOMAIN joinTables})
        /\ \A k \in DOMAIN tables :
              LET of == {j \in DOMAIN ret.ml : ret.ml[j].annotations = <<tables[k].name>>}
              IN  IF tables[k].name \in DOMAIN joinTables
                  THEN of = {}
                  ELSE /\ Cardinality(of) = 1
                       /\ \A j \in of : ret.ml[j].name = typeName(tables[k].name)

\* a successful run over a join table, two entity tables of one type name
C2_Witness ==
    /\ Succeeded
    /\ DOMAIN joinTables # {}
    /\ \E a, b \in DOMAIN ret.ml : a # b /\ ret.ml[a].name = ret.ml[b].name

\* C3: the step of the second loop at a join table whose two referenced
\* tables both have nodes appends exactly two edges and changes nothing else:
\* an outgoing one on A (first foreign key) targeting B and an incoming one
\* on B targeting A, both non-unique and without field; when A = B both land
\* on that node, named child_<table> and parent_<table>, outgoing first.
C3_ManyToManyEdgePair ==
    [][(AtJoin /\ RefA \in DOMAIN mutations /\ RefB \in DOMAIN mutations) =>
          LET a == RefA
              b == RefB
              ea == mutations'[a].edges
              eb == mutations'[b].edges
              out == IF a = b THEN ea[Len(ea) - 1] ELSE ea[Len(ea)]
              inc == eb[Len(eb)]
          IN  /\ ret' = ret
              /\ DOMAIN mutations' = DOMAIN mutations
              /\ EdgeCount(mutations') = EdgeCount(mutations) + 2
              /\ \A nm \in DOMAIN mutations :
                    /\ mutations'[nm].name = mutations[nm].name
                    /\ mutations'[nm].fields = mutations[nm].fields
                    /\ SubSeq(mutations'[nm].edges, 1, Len(mutations[nm].edges))
                           = mutations[nm].edges
                    /\ nm \notin {a, b} => mutations'[nm].edges = mutations[nm].edges
              /\ Len(ea) = Len(mutations[a].edges) + (IF a = b THEN 2 ELSE 1)
              /\ Len(eb) = Len(mutations[b].edges) + (IF a = b THEN 2 ELSE 1)
              /\ ~out.inverse /\ ~out.unique /\ out.field = ""
              /\ out.type = mutations[b].name
              /\ inc.inverse /\ ~inc.unique /\ inc.field = ""
              /\ inc.type = mutations[a].name
              /\ a = b => /\ out.name = "child_" \o tableName(mutations[a].name)
                          /\ inc.name = "parent_" \o tableName(mutations[a].name)
      ]_vars

\* a join table between two different nodes has been handled: the first has
\* the outgoing edge, the second the incoming one
C3_Witness ==
    \E nm \in DOMAIN joinTables :
        LET a == joinTables[nm].fks[1].ref
            b == joinTables[nm].fks[2].ref
        IN  /\ a # b
            /\ a \in DOMAIN mutations /\ b \in DOMAIN mutations
            /\ \E e \in Range(mutations[a].edges) :
                  ~e.inverse /\ ~e.unique /\ e.type = mutations[b].name
            /\ \E e \in Range(mutations[b].edges) :
                  e.inverse /\ ~e.unique /\ e.type = mutations[a].name /\ e.field = ""

\* some join table of the list references a table that has no node
DanglingJoin ==
    \E k \in DOMAIN tables :
        /\ tables[k].name \in DOMAIN joinTables
        /\ \E f \in 1..2 : tables[k].fks[f].ref \notin DOMAIN mutations

\* C4: when the first loop has built every other table and a join table of
\* the list references (by its first or its second foreign key) a table
\* without node, the call returns joinTableErr and a nil list.
C4_JoinTableWithoutReference ==
    (pc = "done" /\ ~BuildFailed /\ DanglingJoin) => ret = ReturnErr("joinTableErr")

\* the run failed on a join table whose first reference has a node (built in
\* the first loop) and whose second has none
C4_Witness ==
    /\ pc = "done"
    /\ ret.err = "joinTableErr"
    /\ \E k \in DOMAIN tables :
          /\ tables[k].name \in DOMAIN joinTables
          /\ tables[k].fks[1].ref \in DOMAIN mutations
          /\ tables[k].fks[2].ref \notin DOMAIN mutations

\* C6: as built by the first loop, the field of the key column of every node
\* is named id; its storage key is the column name when that is not id, and
\* it has none when the column is named id.
C6_PrimaryKeyNamedId ==
    PassOneState =>
        \A nm \in DOMAIN mutations :
            LET key == TableNamed(nm).pk.parts[1]
                built == {k \in DOMAIN mutations[nm].fields : mutations[nm].fields[k].col = key}
            IN  /\ Cardinality(built) = 1
                /\ \A k \in built :
                      /\ mutations[nm].fields[k].name = "id"
                      /\ mutations[nm].fields[k].storageKey = (IF key = "id" THEN "" ELSE key)

\* a node built from a table whose key column is uid
C6_Witness ==
    /\ PassOneState
    /\ \E nm \in DOMAIN mutations :
          /\ TableNamed(nm).pk.parts[1] = "uid"
          /\ \E f \in Range(mutations[nm].fields) : f.name = "id" /\ f.storageKey = "uid"

\* the tables of the list the classifier does not take for join tables
EntityTables == {k \in DOMAIN tables : ~isJoinTable(tables[k])}

\* every table of the list has a one-column key and no index, none is taken
\* for a join table, and every foreign key has one column and references a
\* table outside the list: the only thing left to decide is what a foreign
\* key without parent node does
OnlyDanglingFks ==
    /\ tables # <<>>
    /\ \A k \in DOMAIN tables :
          LET t == tables[k]
          IN  /\ ~isJoinTable(t)
              /\ t.pk.present /\ Len(t.pk.parts) = 1
              /\ t.idxs = <<>>
              /\ \A f \in DOMAIN t.fks :
                    /\ Len(t.fks[f].cols) = 1
                    /\ \A j \in DOMAIN tables : tables[j].name # t.fks[f].ref

\* C5: a foreign key of one column whose parent table has no node is skipped
\* silently: the run returns a list and no error, no node has an edge, and
\* the node of the child has a field built from the foreign-key column.
C5_DanglingForeignKeySkipped ==
    (pc = "done" /\ OnlyDanglingFks) =>
        /\ Succeeded
        /\ \A j \in DOMAIN ret.ml : ret.ml[j].edges = <<>>
        /\ \A k \in DOMAIN tables : \A f \in DOMAIN tables[k].fks :
              \E j \in DOMAIN ret.ml :
                  /\ ret.ml[j].annotations = <<tables[k].name>>
                  /\ \E fl \in Range(ret.ml[j].fields) : fl.col = tables[k].fks[f].cols[1]

\* C7: every node of a successful run has exactly one field named id, and it
\* is the one built from the key column of its table.
C7_ExactlyOneIdField ==
    Succeeded =>
        \A j \in DOMAIN ret.ml :
            LET t == TableNamed(ret.ml[j].annotations[1])
                ids == {k \in DOMAIN ret.ml[j].fields : ret.ml[j].fields[k].name = "id"}
            IN  /\ Cardinality(ids) = 1
                /\ \A k \in ids : ret.ml[j].fields[k].col = t.pk.parts[1]

\* C8: when some table the classifier does not take for a join table has no
\* key or a key of other than one part, the call returns an error and a nil
\* list, whatever the other tables are.
C8_InvalidPrimaryKeyFails ==
    (/\ pc = "done"
     /\ \E k \in EntityTables : ~tables[k].pk.present \/ Len(tables[k].pk.parts) # 1)
        => (ret.kind = "returned" /\ ret.err # "nil" /\ ret.mlNil)

MySQLKinds == {"binary", "bool", "decimal", "enum", "float", "integer", "json",
               "string", "time"}

PostgresKinds == MySQLKinds \cup {"serial", "uuid"}

\* the column's type has no mapping in dialect d: its kind is not one the
\* mapper switches on, or it is an integer whose name the mapper does not list
Unmapped(d, c) ==
    IF d = "mysql"
    THEN \/ c.kind \notin MySQLKinds
         \/ c.kind = "integer" /\ c.T \notin {"tinyint", "smallint", "mediumint", "int", "bigint"}
    ELSE \/ c.kind \notin PostgresKinds
         \/ c.kind = "integer" /\ c.T \notin {"smallint", "integer", "bigint"}

\* C9: when a column of a table that is to become a node has a type without
\* mapping, the call returns the unsupported-type error and a nil list; it
\* does not end abnormally.
C9_UnmappedTypeIsError ==
    (/\ pc = "done"
     /\ \E k \in EntityTables : \E c \in Range(tables[k].cols) : Unmapped(dialect, c))
        => ret = ReturnErr("unsupportedType")

\* C10: over tables whose columns all have supported types the call ends by
\* returning: either a list and no error, or an error and a nil list.
C10_ListOrError ==
    pc = "done" =>
        /\ ret.kind = "returned"
        /\ \/ ret.err = "nil" /\ ~ret.mlNil
           \/ ret.err # "nil" /\ ret.mlNil

\* the second loop is at a table that has a node
AtNode == pc = "pass2" /\ tables[i].name \notin DOMAIN joinTables

\* the edges the step appends to the node of table nm
NewEdges(nm) ==
    SubSeq(mutations'[nm].edges, Len(mutations[nm].edges) + 1, Len(mutations'[nm].edges))

\* the number of edges the step appends, over all nodes, that satisfy P
CountNew(P(_)) ==
    SumOver([nm \in DOMAIN mutations |->
                Cardinality({k \in DOMAIN NewEdges(nm) : P(NewEdges(nm)[k])})],
            DOMAIN mutations)

\* the step appends edges only: names, fields up to renaming and earlier
\* edges of every node stay
OnlyAppends ==
    /\ DOMAIN mutations' = DOMAIN mutations
    /\ \A nm \in DOMAIN mutations :
          /\ Len(mutations'[nm].edges) >= Len(mutations[nm].edges)
          /\ SubSeq(mutations'[nm].edges, 1, Len(mutations[nm].edges)) = mutations[nm].edges

\* the foreign keys of t of one column
SingleFks(t) == {f \in DOMAIN t.fks : Len(t.fks[f].cols) = 1}

\* those of them whose parent and child both have nodes
LiveFks(t) ==
    {f \in SingleFks(t) : t.fks[f].ref \in DOMAIN mutations /\ t.name \in DOMAIN mutations}

\* column c of t is covered by some unique single-column index
UniqueCovered(t, c) == \E x \in Range(t.idxs) : x.unique /\ x.parts = <<c>>

\* the live foreign keys of t over a column with a unique single-column index
CoveredFks(t) == {f \in LiveFks(t) : UniqueCovered(t, t.fks[f].cols[1])}

\* C11: at a table all of whose one-column foreign keys have both endpoints,
\* every foreign key over a column that some unique single-column index
\* covers yields a one-to-one pair: the step appends at least as many unique
\* outgoing edges, and as many unique incoming edges, as there are such
\* foreign keys.
C11_UniqueIndexMeansOneToOne ==
    [][(AtNode /\ LiveFks(tables[i]) = SingleFks(tables[i])) =>
          /\ OnlyAppends
          /\ CountNew(LAMBDA e : ~e.inverse /\ e.unique) >= Cardinality(CoveredFks(tables[i]))
          /\ CountNew(LAMBDA e : e.inverse /\ e.unique) >= Cardinality(CoveredFks(tables[i]))
      ]_vars

\* the foreign keys of t C12 is about: live, to another table p, over column
\* c, which no unique single-column index covers
OneToManyFks(t, p, c) ==
    {f \in LiveFks(t) : /\ t.fks[f].ref = p /\ p # t.name
                        /\ t.fks[f].cols[1] = c /\ ~UniqueCovered(t, c)}

\* the number of edges the step appends to the node of nm that satisfy P
CountNewOn(nm, P(_)) == Cardinality({k \in DOMAIN NewEdges(nm) : P(NewEdges(nm)[k])})

\* C12: for each foreign key over col from child C to another table P, both
\* with nodes and col under no unique single-column index, the step appends
\* one outgoing edge to P (plural name of C, not unique, target C) and one
\* incoming edge to C (singular name of P, unique, target P, field col,
\* back-reference the plural name of C).
C12_OneToManyPair ==
    [][AtNode =>
          LET t == tables[i]
              C == mutations[t.name].name
          IN  \A p \in DOMAIN mutations : \A c \in {x.name : x \in Range(t.cols)} :
                LET n == Cardinality(OneToManyFks(t, p, c))
                    P == mutations[p].name
                IN  n > 0 =>
                      /\ CountNewOn(p, LAMBDA e : /\ ~e.inverse /\ ~e.unique
                                                  /\ e.name = tableName(C) /\ e.type = C)
                            = Cardinality(UNION {OneToManyFks(t, p, x.name) : x \in Range(t.cols)})
                      /\ CountNewOn(t.name, LAMBDA e : /\ e.inverse /\ e.unique
                                                       /\ e.name = Singularize(tableName(P))
                                                       /\ e.type = P /\ e.field = c
                                                       /\ e.refName = tableName(C))
                            = n
      ]_vars

\* the table a returned node was built from
SourceTable(n) == TableNamed(n.annotations[1])

\* table t references itself: by a one-column foreign key, or through a join
\* table of the list whose two foreign keys both reference t
SelfReferenced(t) ==
    \/ \E f \in SingleFks(t) : t.fks[f].ref = t.name
    \/ \E k \in DOMAIN tables :
          /\ tables[k].name \in DOMAIN joinTables
          /\ tables[k].fks[1].ref = t.name /\ tables[k].fks[2].ref = t.name

\* the table names and their singular forms
EdgeBaseNames == {tables[k].name : k \in DOMAIN tables}
                     \cup {Singularize(tables[k].name) : k \in DOMAIN tables}

\* the name starts with child_ (outgoing edge) or parent_ (incoming edge)
Prefixed(e) ==
    IF e.inverse THEN e.name \in {"parent_" \o b : b \in EdgeBaseNames}
    ELSE e.name \in {"child_" \o b : b \in EdgeBaseNames}

DistinctEdgeNames(n) ==
    \A a, b \in DOMAIN n.edges : a # b => n.edges[a].name # n.edges[b].name

\* C13: in the node of a table that references itself, every edge to the
\* node's own type carries the child_ or parent_ prefix, and the names of
\* the node's edges are pairwise distinct.
C13_RecursivePrefixesDistinct ==
    Succeeded =>
        \A j \in DOMAIN ret.ml :
            LET n == ret.ml[j]
            IN  SelfReferenced(SourceTable(n)) =>
                  /\ \A k \in DOMAIN n.edges : n.edges[k].type = n.name => Prefixed(n.edges[k])
                  /\ DistinctEdgeNames(n)

\* C14: every incoming edge a step of the second loop appends has a
\* back-reference name, and the same step appends, to the node the edge
\* targets, an outgoing edge of that name that targets the edge's owner.
C14_BackReferenceNamesPairedEdge ==
    [][pc = "pass2" =>
          \A nm \in DOMAIN mutations : \A k \in DOMAIN NewEdges(nm) :
              LET e == NewEdges(nm)[k]
              IN  e.inverse =>
                    /\ e.refName # ""
                    /\ \E tn \in DOMAIN mutations :
                          /\ mutations[tn].name = e.type
                          /\ \E o \in Range(NewEdges(tn)) :
                                /\ ~o.inverse
                                /\ o.name = e.refName
                                /\ o.type = mutations[nm].name
      ]_vars

\* C15: at a table with a node, every one-column foreign key whose parent
\* has a node yields its own pair, whatever the table's other foreign keys
\* are: the step appends as many outgoing and as many incoming edges as
\* there are such foreign keys.
C15_OnePairPerForeignKey ==
    [][AtNode =>
          /\ OnlyAppends
          /\ CountNew(LAMBDA e : ~e.inverse) = Cardinality(LiveFks(tables[i]))
          /\ CountNew(LAMBDA e : e.inverse) = Cardinality(LiveFks(tables[i]))
      ]_vars

\* C16: in every node of a successful run, a field built from a column that
\* is the sole column of a foreign key of its table is optional, and a field
\* built from a column in no foreign key is optional exactly when the column
\* is nullable.
C16_ForeignKeyFieldsOptional ==
    Succeeded =>
        \A j \in DOMAIN ret.ml :
            LET t == SourceTable(ret.ml[j])
            IN  \A fl \in Range(ret.ml[j].fields) :
                  /\ (\E f \in DOMAIN t.fks : t.fks[f].cols = <<fl.col>>) => fl.optional
                  /\ (\A f \in DOMAIN t.fks : fl.col \notin Range(t.fks[f].cols))
                        => fl.optional = ColumnOf(t, fl.col).null

\* the name is on the configured deny-list
Denied(nm) == excludedTables.set /\ nm \in Range(excludedTables.names)

\* C17: the tables handed to schemaMutations are the inspected tables whose
\* names are not on the deny-list, in their order; without deny-list that is
\* every inspected table, and after a successful run every inspected table
\* that is not a join table has a node.
C17_DenyListFilter ==
    /\ tables = SelectSeq(inspected, LAMBDA t : ~Denied(t.name))
    /\ (Succeeded /\ ~excludedTables.set) =>
          \A k \in DOMAIN inspected :
              ~isJoinTable(inspected[k]) =>
                  \E j \in DOMAIN ret.ml : ret.ml[j].annotations = <<inspected[k].name>>


\* declared size in bytes of the integer type names the mappers list
ByteWidth(T) ==
    CASE T = "tinyint" -> 1
      [] T = "smallint" -> 2
      [] T = "mediumint" -> 3
      [] T \in {"int", "integer"} -> 4
      [] T = "bigint" -> 8
      [] OTHER -> 0

\* the smallest of the widths 8, 16, 32, 64 that holds a type of that size
WidthClass(T) ==
    CASE ByteWidth(T) = 1 -> 8
      [] ByteWidth(T) = 2 -> 16
      [] ByteWidth(T) \in {3, 4} -> 32
      [] OTHER -> 64

\* an integer column whose type name the mapper of dialect d lists
ListedInteger(d, c) == c.kind = "integer" /\ ~Unmapped(d, c)

\* the kind of the field the node of table nm holds for column c
MappedKind(nm, c) ==
    (CHOOSE f \in Range(mutations[nm].fields) : f.col = c.name).kind

\* the pairs of listed integer columns of equal signedness in a table that
\* has a node
IntegerPairs(nm) ==
    {p \in Range(TableNamed(nm).cols) \X Range(TableNamed(nm).cols) :
        /\ ListedInteger(dialect, p[1]) /\ ListedInteger(dialect, p[2])
        /\ p[1].unsigned = p[2].unsigned}

\* C19 as stated: two listed integer columns of different declared byte
\* widths and the same signedness never map to the same field kind.
C19_DifferentWidthsDifferentKinds ==
    \A nm \in DOMAIN mutations : \A p \in IntegerPairs(nm) :
        ByteWidth(p[1].T) # ByteWidth(p[2].T) =>
            MappedKind(nm, p[1]) # MappedKind(nm, p[2])

\* C19 amended: two listed integer columns of the same signedness map to
\* the same field kind exactly when their declared widths round up to the
\* same one of the widths 8, 16, 32, 64; MySQL's 3-byte mediumint and 4-byte
\* int share the 32-bit kind, every other pair of different widths differs.
C19_KindIdentifiesWidthClass ==
    \A nm \in DOMAIN mutations : \A p \in IntegerPairs(nm) :
        (MappedKind(nm, p[1]) = MappedKind(nm, p[2]))
            <=> (WidthClass(p[1].T) = WidthClass(p[2].T))

\* a node built from a mediumint and an int column of the same signedness,
\* both mapped to the 32-bit kind
C19_Witness ==
    \E nm \in DOMAIN mutations : \E p \in IntegerPairs(nm) :
        /\ p[1].T = "mediumint" /\ p[2].T = "int"
        /\ MappedKind(nm, p[1]) = MappedKind(nm, p[2])
        /\ MappedKind(nm, p[1]) \in {"int32", "uint32"}

\* the bigint columns of the tables that have a node
BigintColumns(nm) ==
    {c \in Range(TableNamed(nm).cols) : c.kind = "integer" /\ c.T = "bigint"}

\* C20 as stated: every bigint column, signed or unsigned, in either
\* dialect, maps to the platform-native integer kind and never to a fixed
\* 64-bit kind.
C20_BigintIsNative ==
    \A nm \in DOMAIN mutations : \A c \in BigintColumns(nm) :
        /\ MappedKind(nm, c) = (IF c.unsigned THEN "uint" ELSE "int")
        /\ MappedKind(nm, c) \notin {"int64", "uint64"}

\* C20 amended: a signed bigint column maps to the platform-native int in
\* both dialects and never to int64; an unsigned bigint column maps to the
\* fixed-width uint64 under MySQL, and under PostgreSQL, whose mapper does
\* not read the sign, to the native int.
C20_SignedBigintIsNative ==
    \A nm \in DOMAIN mutations : \A c \in BigintColumns(nm) :
        MappedKind(nm, c) =
            (IF c.unsigned /\ dialect = "mysql" THEN "uint64" ELSE "int")

\* a MySQL node holding a signed and an unsigned bigint column
C20_Witness ==
    /\ dialect = "mysql"
    /\ \E nm \in DOMAIN mutations : \E c1, c2 \in BigintColumns(nm) :
          /\ ~c1.unsigned /\ MappedKind(nm, c1) = "int"
          /\ c2.unsigned /\ MappedKind(nm, c2) = "uint64"


\* a table with at least two foreign keys of one column each
BridgeLike(t) == Cardinality(SingleFks(t)) >= 2

\* the columns of the one-column foreign keys of t
SingleFkColumns(t) == {t.fks[f].cols[1] : f \in SingleFks(t)}

\* the first loop is at a bridge-like table that isJoinTable rejects
AtRejectedBridge ==
    pc = "pass1" /\ ~isJoinTable(tables[i]) /\ BridgeLike(tables[i])

\* C21 as stated: every bridge-like table that isJoinTable does not classify
\* as a join table is imported without error as an entity in which every
\* foreign-key column has a field, and that field is required.
C21_RejectedBridgeIsEntityWithRequiredFks ==
    [][AtRejectedBridge =>
          /\ ret' = ret
          /\ tables[i].name \in DOMAIN mutations'
          /\ \A c \in SingleFkColumns(tables[i]) :
                \E f \in Range(mutations'[tables[i].name].fields) :
                    f.col = c /\ ~f.optional]_vars

\* C21 amended: a bridge-like table that isJoinTable does not classify as a
\* join table becomes an entity only if its primary key has exactly one
\* column; with no key or a composite key the import ends there with the
\* invalid-primary-key error.  In the entity built, every field built from a
\* foreign-key column is optional, whatever the column's nullability.
C21_RejectedBridgeNeedsSingleKey ==
    [][AtRejectedBridge =>
          IF tables[i].pk.present /\ Len(tables[i].pk.parts) = 1
          THEN tables[i].name \in DOMAIN mutations' =>
                  \A f \in Range(mutations'[tables[i].name].fields) :
                      f.col \in SingleFkColumns(tables[i]) => f.optional
          ELSE /\ ret' = ReturnErr("invalidPK")
               /\ mutations' = mutations]_vars

\* a bridge-like table with a key of its own, built into an entity whose two
\* foreign-key columns are NOT NULL and whose fields for them are optional
C21_Witness ==
    \E nm \in DOMAIN mutations :
        LET t == TableNamed(nm)
        IN  /\ BridgeLike(t)
            /\ t.pk.parts[1] \notin SingleFkColumns(t)
            /\ Cardinality(SingleFkColumns(t)) = 2
            /\ \A c \in SingleFkColumns(t) :
                  /\ ~ColumnOf(t, c).null
                  /\ \E f \in Range(mutations[nm].fields) : f.col = c /\ f.optional


\* the names of the columns of t
ColumnNames(t) == {c.name : c \in Range(t.cols)}

\* C22: every table recorded as a join table has no column outside its two
\* primary-key columns.
C22_JoinTableHasOnlyKeyColumns ==
    \A nm \in DOMAIN joinTables :
        ColumnNames(joinTables[nm]) = Range(joinTables[nm].pk.parts)


\* C23: a node carries the table annotation, holding the name of its table,
\* exactly when that name differs from the table name derived back from the
\* node's type name; otherwise it carries no annotation.
C23_AnnotationOnlyWhenNameDiffers ==
    \A nm \in DOMAIN mutations :
        mutations[nm].annotations =
            (IF nm # tableName(mutations[nm].name) THEN <<nm>> ELSE <<>>)


----------------------------------------------------------------------------
(* schemaMutations as a function of the dialect and the table list, for    *)
(* statements that compare the runs over two lists.  Results are [st, m]:  *)
(* st is "ok", "panic" or the error returned, m the map of nodes.          *)

\* the first loop from position k on; jt the names recorded in joinTables
RECURSIVE firstLoop(_, _, _, _, _)
firstLoop(d, ts, k, m, jt) ==
    IF k > Len(ts) THEN [st |-> "ok", m |-> m, jt |-> jt]
    ELSE IF isJoinTable(ts[k])
         THEN firstLoop(d, ts, k + 1, m, jt \cup {ts[k].name})
         ELSE LET r == upsertNode(d, ts[k])
              IN  IF r.st = "ok"
                  THEN firstLoop(d, ts, k + 1, putNode(m, ts[k], r.node), jt)
                  ELSE [st |-> IF r.st = "panic" THEN "panic" ELSE r.err,
                        m |-> m, jt |-> jt]

\* the second loop from position k on
RECURSIVE secondLoop(_, _, _, _)
secondLoop(ts, k, m, jt) ==
    IF k > Len(ts) THEN [st |-> "ok", m |-> m]
    ELSE IF ts[k].name \in jt
         THEN LET r == upsertManyToMany(m, ts[k])
              IN  IF r.err = "nil" THEN secondLoop(ts, k + 1, r.m, jt)
                  ELSE [st |-> r.err, m |-> m]
         ELSE secondLoop(ts, k + 1, upsertOneToX(m, ts[k]), jt)

schemaMutations(d, ts) ==
    LET a == firstLoop(d, ts, 1, EmptyMap, {})
    IN  IF a.st # "ok" THEN [st |-> a.st, m |-> a.m]
        ELSE secondLoop(ts, 1, a.m, a.jt)

\* a sequence of edges as a bag: edge -> number of occurrences
EdgeBag(es) == [e \in Range(es) |-> Cardinality({k \in DOMAIN es : es[k] = e})]

\* the lists holding the tables of ts in some order
Reorderings(ts) == {[k \in DOMAIN ts |-> ts[p[k]]] : p \in Orderings(DOMAIN ts)}

\* every table of the list that isJoinTable rejects has its node
AllNodesBuilt ==
    \A k \in DOMAIN tables : ~isJoinTable(tables[k]) => tables[k].name \in DOMAIN mutations

\* C24: while some table that is to become a node has none yet, no node has
\* an edge; and when the run succeeds, the run over the same tables in any
\* other order succeeds too and gives every node the same edges, each as
\* often.
C24_EdgesAfterAllNodesAnyOrder ==
    /\ (\E nm \in DOMAIN mutations : Len(mutations[nm].edges) > 0) => AllNodesBuilt
    /\ Succeeded =>
          \A ps \in Reorderings(tables) :
              LET r == schemaMutations(dialect, ps)
              IN  /\ r.st = "ok"
                  /\ DOMAIN r.m = DOMAIN mutations
                  /\ \A nm \in DOMAIN mutations :
                        EdgeBag(r.m[nm].edges) = EdgeBag(mutations[nm].edges)

\* a successful run over a list in which a child table stands before its
\* parent and a join table before the tables it joins, with edges attached
C24_Witness ==
    /\ Succeeded
    /\ Len(tables) = 3
    /\ \E k \in DOMAIN tables :
          /\ tables[k].name \in DOMAIN mutations
          /\ Len(mutations[tables[k].name].edges) > 0
          /\ \E f \in DOMAIN tables[k].fks : \E j \in DOMAIN tables :
                j > k /\ tables[j].name = tables[k].fks[f].ref
    /\ \E k \in DOMAIN tables :
          /\ tables[k].name \in DOMAIN joinTables
          /\ \E j \in DOMAIN tables : j > k /\ tables[j].name = tables[k].fks[1].ref


\* the positions of the tables isJoinTable rejects whose node cannot be built
FailingTables ==
    {k \in DOMAIN tables :
        ~isJoinTable(tables[k]) /\ upsertNode(dialect, tables[k]).st # "ok"}

FirstFailing == CHOOSE k \in FailingTables : \A j \in FailingTables : k <= j

\* C25: when some table's node cannot be built, the call returns the build
\* error of the first such table in list order and a nil list - also when a
\* join table without reference stands before it - and no node has received
\* an edge.
C25_FirstBuildErrorWins ==
    (pc = "done" /\ FailingTables # {}) =>
        /\ ret.kind = "returned"
        /\ ret.err # "nil"
        /\ ret.err = upsertNode(dialect, tables[FirstFailing]).err
        /\ ret.mlNil
        /\ \A nm \in DOMAIN mutations : mutations[nm].edges = <<>>


\* both loops have run to their end
InferenceDone == pc = "collect" \/ Succeeded

\* the one-column foreign keys of t that upsertOneToX reaches with both
\* nodes present: those before which no one-column foreign key lacks a node
ProcessedFks(t) ==
    {f \in SingleFks(t) :
        /\ t.name \in DOMAIN mutations
        /\ \A j \in SingleFks(t) : j <= f => t.fks[j].ref \in DOMAIN mutations}

\* the name of the incoming edge for a foreign key to table p, before any
\* parent_ prefix
IncomingBase(p) == Singularize(tableName(mutations[p].name))

\* the foreign keys whose incoming edge is named as their column is
RenamingFks(t) ==
    {f \in ProcessedFks(t) : IncomingBase(t.fks[f].ref) = t.fks[f].cols[1]}

\* edge e is the incoming edge of foreign key f of table t, with the
\* associated field the claim gives it
IncomingOf(e, t, f) ==
    LET c == t.fks[f].cols[1]
        p == t.fks[f].ref
    IN  /\ e.inverse
        /\ e.name = (IF p = t.name THEN "parent_" \o IncomingBase(p) ELSE IncomingBase(p))
        /\ e.field = (IF f \in RenamingFks(t) THEN c \o "_id" ELSE c)

\* C26: after relationship inference, every processed foreign key has its
\* incoming edge on the child, whose associated field is <column>_id when the
\* edge name (before any parent_ prefix) equals the column name and the column
\* name otherwise; in the first case the child's field built from that column
\* exists and is named <column>_id; every other field keeps the name the
\* entity builder gave it.
C26_RenameOnlyOnNameClash ==
    InferenceDone =>
        \A nm \in DOMAIN mutations :
            LET t == TableNamed(nm)
            IN  /\ \A f \in ProcessedFks(t) :
                      \E e \in Range(mutations[nm].edges) : IncomingOf(e, t, f)
                /\ \A e \in Range(mutations[nm].edges) :
                      (e.inverse /\ e.field # "") =>
                          \E f \in ProcessedFks(t) : IncomingOf(e, t, f)
                /\ \A f \in RenamingFks(t) :
                      \E fl \in Range(mutations[nm].fields) : fl.col = t.fks[f].cols[1]
                /\ \A fl \in Range(mutations[nm].fields) :
                      fl.name =
                          (IF \E f \in RenamingFks(t) : t.fks[f].cols[1] = fl.col
                           THEN fl.col \o "_id"
                           ELSE IF fl.col = t.pk.parts[1] THEN "id" ELSE fl.col)


\* the foreign keys of s of one column, in order
RECURSIVE singleColumnFks(_)
singleColumnFks(s) ==
    IF Len(s) = 0 THEN <<>>
    ELSE IF Len(s[1].cols) = 1 THEN <<s[1]>> \o singleColumnFks(Tail(s))
         ELSE singleColumnFks(Tail(s))

\* table t without its foreign keys of several columns
WithoutMultiFks(t) == [t EXCEPT !.fks = singleColumnFks(t.fks)]

\* the columns of t that some foreign key of several columns holds
MultiFkColumns(t) ==
    UNION {Range(t.fks[f].cols) : f \in {g \in DOMAIN t.fks : Len(t.fks[g].cols) > 1}}

\* C27: every node has, for each column of a foreign key of several columns,
\* a field of the kind, optionality and uniqueness it has when the table is
\* built without those foreign keys; and after relationship inference every
\* node has the edges it has in the run over the tables without them.
C27_MultiColumnFkIsInert ==
    /\ \A nm \in DOMAIN mutations :
          LET t == TableNamed(nm)
              r == upsertNode(dialect, WithoutMultiFks(t))
          IN  \A c \in MultiFkColumns(t) :
                  /\ r.st = "ok"
                  /\ \E fl \in Range(mutations[nm].fields) :
                        \E g \in Range(r.node.fields) :
                            /\ fl.col = c /\ g.col = c
                            /\ fl.kind = g.kind
                            /\ fl.optional = g.optional
                            /\ fl.unique = g.unique
    /\ InferenceDone =>
          LET r == schemaMutations(dialect, [k \in DOMAIN tables |-> WithoutMultiFks(tables[k])])
          IN  /\ r.st = "ok"
              /\ \A nm \in DOMAIN mutations : r.m[nm].edges = mutations[nm].edges


\* C28: in every node a successful run returns, every incoming edge with an
\* associated field names a field of that node.
C28_EdgeFieldExists ==
    Succeeded =>
        \A j \in DOMAIN ret.ml : \A e \in Range(ret.ml[j].edges) :
            (e.inverse /\ e.field # "") =>
                \E fl \in Range(ret.ml[j].fields) : fl.name = e.field


\* C29: in every node a successful run returns, a field whose name differs
\* from the name of the column it was built from has that column name as
\* its storage key.
C29_RenamedFieldKeepsStorageKey ==
    Succeeded =>
        \A j \in DOMAIN ret.ml : \A fl \in Range(ret.ml[j].fields) :
            fl.name # fl.col => fl.storageKey = fl.col


\* the pairs of positions of edges of node n that carry the same name
SameNamePairs(n) ==
    {p \in (DOMAIN n.edges) \X (DOMAIN n.edges) :
        p[1] < p[2] /\ n.edges[p[1]].name = n.edges[p[2]].name}

\* C30 as stated: in every node a successful run returns, the names of the
\* edges are pairwise distinct.
C30_EdgeNamesDistinct ==
    Succeeded => \A j \in DOMAIN ret.ml : SameNamePairs(ret.ml[j]) = {}

\* the names an edge to entity type ty can carry: the table name derived from
\* the type or its singular, bare or with the prefix of a recursive relation
NamesFor(ty) ==
    LET names == {tableName(ty), Singularize(tableName(ty))}
    IN  names \cup {"child_" \o n : n \in names} \cup {"parent_" \o n : n \in names}

\* C30 amended: in every node a successful run returns, the name of each edge
\* is derived from its target entity type alone, and a prefixed name occurs
\* only on an edge of the node to its own type; nothing of the foreign-key
\* column or the join table enters the name, so edges of one node need not
\* differ in name.
C30_NameFromTargetType ==
    Succeeded =>
        \A j \in DOMAIN ret.ml : \A e \in Range(ret.ml[j].edges) :
            /\ e.name \in NamesFor(e.type)
            /\ e.name \notin {tableName(e.type), Singularize(tableName(e.type))}
                  => e.type = ret.ml[j].name

\* a returned node with two edges of one name: an outgoing edge from a join
\* table and one from a direct foreign key, both to the same type
C30_Witness ==
    /\ Succeeded
    /\ DOMAIN joinTables # {}
    /\ \E j \in DOMAIN ret.ml : \E p \in SameNamePairs(ret.ml[j]) :
          /\ ~ret.ml[j].edges[p[1]].inverse /\ ~ret.ml[j].edges[p[2]].inverse
          /\ ret.ml[j].edges[p[1]].type = ret.ml[j].edges[p[2]].type
          /\ ret.ml[j].edges[p[1]].type # ret.ml[j].name

====
